---- MODULE Spec2Model ----
(***************************************************************************)
(* Guidance core of the lunar-lander bots of wardsimon/firefly.            *)
(*                                                                         *)
(*   src/bot.py          the baseline (threshold) bot                      *)
(*   src/firefly_bot.py  the advanced (feedback-controller) bot            *)
(*                                                                         *)
(* Number representation.  The code computes on floats; the model uses     *)
(* fixed-point integers:                                                   *)
(*   - positions x, y, terrain altitudes and site indices: whole units;    *)
(*   - velocities vx, vy and the heading: hundredths (vx = 5 is 0.05,      *)
(*     head = 50 is 0.5 degrees), so the code's thresholds 0.1, 0.5, 10,   *)
(*     3, 1, 70, 90 read 10, 50, 1000, 300, 100, 7000, 9000;               *)
(*   - controller setpoints of the altitude controller: tenths, so that    *)
(*     top_screen * 0.9 is the integer top_screen * 9.                     *)
(* A terrain is held as the list of its blocks <<altitude, width>>, left   *)
(* to right; Blocks(d) is the array of cells the code receives.            *)
(* The simulation calls Bot.run once per time step.  One tick is one       *)
(* action (BaselineRun / AdvancedRun) that draws the tick's inputs and     *)
(* runs the whole handler; SimStep is the simulation consuming the         *)
(* returned instruction before it calls the bot again.                     *)
(***************************************************************************)
EXTENDS Integers, Sequences, FiniteSets, TLC

VARIABLES
    variant,            \* which Bot class the match instantiated
    pc,                 \* "idle": between ticks, "ran": Bot.run has returned
    initial_manoeuvre,  \* self.initial_manoeuvre
    target_site,        \* self.target_site
    pidtheta,           \* self.pidtheta (advanced): [setpoint, samples]
    pidy,               \* self.pidy (advanced): [setpoint, samples]
    me,                 \* players[self.team] of the tick: [x, y, vx, vy, head]
    terrain,            \* the terrain argument of the tick, as its blocks
    instructions,       \* the Instructions object run() returned
    tick                \* locals of the last run() call, kept for observation

vars == <<variant, pc, initial_manoeuvre, target_site, pidtheta, pidy,
          me, terrain, instructions, tick>>

(***************************************************************************)
(* Bounds of the model and the configuration it runs under.                *)
(***************************************************************************)
\* Terrains of the analyzer's own specification have at most MaxRuns blocks.
MaxRuns == 3
\* A controller's sample count is tracked up to MaxSamples ("that many or more").
MaxSamples == 2
\* Config().nx and Config().ny of the external lunarlander package.
screen_width == 200
top_screen == 1000

None == -1

Abs(v) == IF v < 0 THEN -v ELSE v

(***************************************************************************)
(* rotate(current, target): bot.py 10-13, firefly_bot.py 21-24.            *)
(* Angles in hundredths of a degree; 0.5 is 50.                            *)
(***************************************************************************)
rotate_inclusive_band(current, target) ==
    IF Abs(current - target) <= 50 THEN "none"
    ELSE IF current < target THEN "left" ELSE "right"

rotate(current, target) ==
    IF Abs(current - target) < 50 THEN "none"
    ELSE IF current < target THEN "left" ELSE "right"

(***************************************************************************)
(* find_landing_site(terrain): bot.py 16-37, firefly_bot.py 27-48.         *)
(* The numpy array terrain[0..n-1] is the sequence t[1..n].                *)
(***************************************************************************)
\* loc_run_start: index 0 is True, index i > 0 is terrain[i-1] != terrain[i].
loc_run_start(t) ==
    [i \in 0..(Len(t) - 1) |-> IF i = 0 THEN TRUE ELSE t[i] # t[i + 1]]

\* np.nonzero(loc_run_start)[0]: the True indices in ascending order.
run_starts(t) ==
    LET flags == loc_run_start(t)
        IsStart(i) == flags[i]
    IN  SelectSeq([k \in 1..Len(t) |-> k - 1], IsStart)

\* np.diff(np.append(run_starts, n)).
run_lengths(t) ==
    LET ext == Append(run_starts(t), Len(t))
    IN  [k \in 1..(Len(ext) - 1) |-> ext[k + 1] - ext[k]]

\* np.argmax: position (1-based here) of the first greatest element.
argmax_last(s) ==
    CHOOSE k \in 1..Len(s) :
        /\ \A j \in 1..Len(s) : s[j] <= s[k]
        /\ \A j \in (k + 1)..Len(s) : s[j] < s[k]

argmax(s) ==
    CHOOSE k \in 1..Len(s) :
        /\ \A j \in 1..Len(s) : s[j] <= s[k]
        /\ \A j \in 1..(k - 1) : s[j] < s[k]

\* int(start + (end - start) * 0.5) for non-negative start and width.
midpoint(start, end) == (2 * start + (end - start)) \div 2

find_landing_site_min40(t) ==
    LET starts  == run_starts(t)
        lengths == run_lengths(t)
        imax    == argmax(lengths)
        start   == starts[imax]
        end     == start + lengths[imax]
    IN  IF (end - start) >= 40 THEN midpoint(start, end) ELSE None

find_landing_site(t) ==
    LET starts  == run_starts(t)
        lengths == run_lengths(t)
        imax    == argmax(lengths)
        start   == starts[imax]
        end     == start + lengths[imax]
    IN  IF (end - start) > 40 THEN midpoint(start, end) ELSE None

(***************************************************************************)
(* Inputs of a tick.                                                       *)
(***************************************************************************)
Flat(alt, len) == [i \in 1..len |-> alt]

\* The terrain made of the blocks <<altitude, width>> of d, left to right.
RECURSIVE Blocks(_)
Blocks(d) ==
    IF d = <<>> THEN <<>> ELSE Flat(d[1][1], d[1][2]) \o Blocks(Tail(d))

\* 200 cells at 100 except cells [80,160) at 50 (the spec's scenario).
terrain_scenario == << <<100, 80>>, <<50, 80>> , <<100, 40>> >>
\* Every run is exactly 40 wide: no site.
terrain_rough ==
    << <<100, 40>>, <<50, 40>>, <<100, 40>>, <<50, 40>>, <<100, 40>> >>
\* One run as wide as the screen.
terrain_flat == << <<100, screen_width>> >>
\* An 80-wide plateau at altitude 30 on the right.
terrain_plateau ==
    << <<100, 40>>, <<50, 40>>, <<100, 40>>, <<30, 80>> >>

Terrains == {terrain_scenario, terrain_rough, terrain_flat, terrain_plateau}

XValues    == {10, 90, 130, 190}
YValues    == {500, 900}
VxValues   == {-1500, -30, 0, 5, 10, 30, 50, 1000, 1500}
VyValues   == {-500, -300, 0}
HeadValues == {-9050, -9000, -7000, -50, 0, 50, 100, 7000, 9000, 9050}

\* players[self.team] as the baseline bot reads it.
BaselinePlayers ==
    [x : XValues, y : YValues, vx : VxValues, vy : VyValues, head : HeadValues]

\* The advanced bot never reads vy, and y only enters the altitude
\* controller, whose output is drawn separately (PidOutputs).
AdvancedPlayers ==
    [x : XValues, y : {500}, vx : {-30, 5, 10, 30}, vy : {-500},
     head : HeadValues]

\* What a controller call can return: negative, zero, positive.
PidOutputs == {-1, 0, 1}

NoPlayer == [x |-> 0, y |-> 0, vx |-> 0, vy |-> 0, head |-> 0]

\* Instructions(): all three flags False.
Instructions == [main |-> FALSE, left |-> FALSE, right |-> FALSE]

NoTick ==
    [phase |-> "none", scanned |-> FALSE, found |-> None, command |-> "none",
     target |-> None, run_to_target |-> FALSE, target_y |-> None,
     diff |-> 0, dx |-> 0, new_v |-> 0, new_y |-> 0]

\* if command == "left": instructions.left = True
\* elif command == "right": instructions.right = True
apply_command(instr, command) ==
    IF command = "left" THEN [instr EXCEPT !.left = TRUE]
    ELSE IF command = "right" THEN [instr EXCEPT !.right = TRUE]
    ELSE instr

(***************************************************************************)
(* Baseline Bot.run (bot.py 78-133).                                       *)
(***************************************************************************)
\* bot.py 86-97: the initial manoeuvre; returns the new flag, the
\* instructions and the rotation command.
base_initial_vx_ge(p) ==
    IF p.vx >= 1000
    THEN [initial_manoeuvre |-> TRUE,
          instructions |-> [Instructions EXCEPT !.main = TRUE],
          command |-> "none"]
    ELSE LET command == rotate(p.head, 0)
         IN  [initial_manoeuvre |-> (command \in {"left", "right"}),
              instructions |-> apply_command(Instructions, command),
              command |-> command]

base_initial(p) ==
    IF p.vx > 1000
    THEN [initial_manoeuvre |-> TRUE,
          instructions |-> [Instructions EXCEPT !.main = TRUE],
          command |-> "none"]
    ELSE LET command == rotate(p.head, 0)
         IN  [initial_manoeuvre |-> (command \in {"left", "right"}),
              instructions |-> apply_command(Instructions, command),
              command |-> command]

\* bot.py 100-101: search only while nothing is cached; scanned tells
\* whether find_landing_site was called, found what it returned.
base_search_always(site, t) ==
    [target_site |-> find_landing_site(t), scanned |-> TRUE,
     found |-> find_landing_site(t)]

base_search(site, t) ==
    IF site = None
    THEN [target_site |-> find_landing_site(t), scanned |-> TRUE,
          found |-> find_landing_site(t)]
    ELSE [target_site |-> site, scanned |-> FALSE, found |-> None]

\* bot.py 104-105: fallback hover.
base_hover_inclusive(site, p) ==
    IF (site = None) /\ (p.y <= 900) /\ (p.vy < 0)
    THEN [Instructions EXCEPT !.main = TRUE]
    ELSE Instructions

base_hover(site, p) ==
    IF (site = None) /\ (p.y < 900) /\ (p.vy < 0)
    THEN [Instructions EXCEPT !.main = TRUE]
    ELSE Instructions

\* bot.py 110-127: close to the target.
base_approach_left_main(instr, p) ==
    LET command == IF Abs(p.vx) <= 10 THEN rotate(p.head, 0)
                   ELSE IF p.vx > 10 THEN rotate(p.head, 9000)
                   ELSE rotate(p.head, -9000)
        i1 == IF Abs(p.vx) <= 10 THEN instr
              ELSE [instr EXCEPT !.main = TRUE]
        i2 == apply_command(i1, command)
        i3 == IF (Abs(p.vx) < 50) /\ (p.vy < -300)
              THEN [i2 EXCEPT !.main = TRUE] ELSE i2
    IN  [instructions |-> i3, command |-> command, phase |-> "approach"]

base_approach_override_first(instr, p) ==
    LET command == IF Abs(p.vx) <= 10 THEN rotate(p.head, 0)
                   ELSE IF p.vx > 10 THEN rotate(p.head, 9000)
                   ELSE rotate(p.head, -9000)
        i0 == IF (Abs(p.vx) < 50) /\ (p.vy < -300)
              THEN [instr EXCEPT !.main = TRUE] ELSE instr
        i1 == IF Abs(p.vx) <= 10 THEN i0
              ELSE IF p.vx > 10 THEN [i0 EXCEPT !.main = TRUE]
              ELSE [i0 EXCEPT !.main = FALSE]
    IN  [instructions |-> apply_command(i1, command), command |-> command,
         phase |-> "approach"]

base_approach(instr, p) ==
    LET command == IF Abs(p.vx) <= 10 THEN rotate(p.head, 0)
                   ELSE IF p.vx > 10 THEN rotate(p.head, 9000)
                   ELSE rotate(p.head, -9000)
        i1 == IF Abs(p.vx) <= 10 THEN instr
              ELSE IF p.vx > 10 THEN [instr EXCEPT !.main = TRUE]
              ELSE [instr EXCEPT !.main = FALSE]
        i2 == apply_command(i1, command)
        i3 == IF (Abs(p.vx) < 50) /\ (p.vy < -300)
              THEN [i2 EXCEPT !.main = TRUE] ELSE i2
    IN  [instructions |-> i3, command |-> command, phase |-> "approach"]

\* bot.py 128-131: far from the target.
base_cruise_le(instr, p) ==
    [instructions |-> IF p.vy <= 0 THEN [instr EXCEPT !.main = TRUE] ELSE instr,
     command |-> "none", phase |-> "cruise"]

base_cruise(instr, p) ==
    [instructions |-> IF p.vy < 0 THEN [instr EXCEPT !.main = TRUE] ELSE instr,
     command |-> "none", phase |-> "cruise"]

\* bot.py 107-131.
base_guidance(site, instr, p) ==
    IF site # None
    THEN LET diff == site - p.x
         IN  IF Abs(diff) < 50 THEN base_approach(instr, p)
             ELSE base_cruise(instr, p)
    ELSE [instructions |-> instr, command |-> "none", phase |-> "hover"]

\* The whole of Bot.run: new bot fields, returned instructions, locals.
baseline_run_fallthrough(im, site, p, t) ==
    IF im /\ base_initial(p).initial_manoeuvre
    THEN LET r == base_initial(p)
         IN  [initial_manoeuvre |-> r.initial_manoeuvre,
              target_site |-> site,
              instructions |-> r.instructions,
              tick |-> [NoTick EXCEPT !.phase = "initial",
                                      !.command = r.command]]
    ELSE LET s == base_search(site, t)
             site1 == s.target_site
             g == base_guidance(site1, base_hover(site1, p), p)
         IN  [initial_manoeuvre |-> FALSE,
              target_site |-> site1,
              instructions |-> g.instructions,
              tick |-> [NoTick EXCEPT
                           !.phase = IF im THEN "initial" ELSE g.phase,
                           !.scanned = s.scanned,
                           !.found = s.found,
                           !.command = g.command,
                           !.diff = IF site1 # None THEN site1 - p.x ELSE 0]]

baseline_run(im, site, p, t) ==
    IF im
    THEN LET r == base_initial(p)
         IN  [initial_manoeuvre |-> r.initial_manoeuvre,
              target_site |-> site,
              instructions |-> r.instructions,
              tick |-> [NoTick EXCEPT !.phase = "initial",
                                      !.command = r.command]]
    ELSE LET s == base_search(site, t)
             site1 == s.target_site
             g == base_guidance(site1, base_hover(site1, p), p)
         IN  [initial_manoeuvre |-> FALSE,
              target_site |-> site1,
              instructions |-> g.instructions,
              tick |-> [NoTick EXCEPT
                           !.phase = g.phase,
                           !.scanned = s.scanned,
                           !.found = s.found,
                           !.command = g.command,
                           !.diff = IF site1 # None THEN site1 - p.x ELSE 0]]

BaselineRun ==
    /\ variant = "baseline"
    /\ pc = "idle"
    /\ \E p \in BaselinePlayers, t \in Terrains :
         LET r == baseline_run(initial_manoeuvre, target_site, p, Blocks(t))
         IN  /\ me' = p
             /\ terrain' = t
             /\ initial_manoeuvre' = r.initial_manoeuvre
             /\ target_site' = r.target_site
             /\ instructions' = r.instructions
             /\ tick' = r.tick
    /\ pc' = "ran"
    /\ UNCHANGED <<variant, pidtheta, pidy>>

(***************************************************************************)
(* Advanced Bot.run (firefly_bot.py 96-187).                               *)
(*                                                                         *)
(* PID is simple_pid's controller, an external package.  The model keeps   *)
(* of an instance its setpoint and how many samples it has integrated      *)
(* since it was constructed (0 for a fresh instance, counted up to         *)
(* MaxSamples); what a call returns is drawn from PidOutputs.              *)
(***************************************************************************)
\* PID(1, 0.1, 0.05, setpoint=...): a fresh instance.
PID(setpoint) == [setpoint |-> setpoint, samples |-> 0]

\* pid(value): the instance after one more sample.
pid_call(pid) ==
    [pid EXCEPT !.samples = IF @ < MaxSamples THEN @ + 1 ELSE MaxSamples]

\* firefly_bot.py 62: int(screen_width / 2).
initial_target_site == screen_width \div 2

\* firefly_bot.py 65: top_screen * 0.9, in tenths.
hover_setpoint == top_screen * 9

\* firefly_bot.py 104-115: the initial manoeuvre; new_v is what
\* self.pidtheta(head) returns when it is called.
adv_initial_overlap(ptheta, p, new_v) ==
    IF Abs(p.head - ptheta.setpoint) < 100
    THEN [initial_manoeuvre |-> FALSE, pidtheta |-> ptheta,
          instructions |-> Instructions, called |-> FALSE]
    ELSE [initial_manoeuvre |-> TRUE, pidtheta |-> pid_call(ptheta),
          instructions |->
              [main |-> TRUE, left |-> (new_v >= 0), right |-> (new_v <= 0)],
          called |-> TRUE]

adv_initial_inclusive(ptheta, p, new_v) ==
    IF Abs(p.head - ptheta.setpoint) <= 100
    THEN [initial_manoeuvre |-> FALSE, pidtheta |-> ptheta,
          instructions |-> Instructions, called |-> FALSE]
    ELSE [initial_manoeuvre |-> TRUE, pidtheta |-> pid_call(ptheta),
          instructions |->
              IF new_v > 0
              THEN [Instructions EXCEPT !.left = TRUE, !.main = TRUE]
              ELSE [Instructions EXCEPT !.right = TRUE, !.main = TRUE],
          called |-> TRUE]

adv_initial(ptheta, p, new_v) ==
    IF Abs(p.head - ptheta.setpoint) < 100
    THEN [initial_manoeuvre |-> FALSE, pidtheta |-> ptheta,
          instructions |-> Instructions, called |-> FALSE]
    ELSE [initial_manoeuvre |-> TRUE, pidtheta |-> pid_call(ptheta),
          instructions |->
              IF new_v > 0
              THEN [Instructions EXCEPT !.left = TRUE, !.main = TRUE]
              ELSE [Instructions EXCEPT !.right = TRUE, !.main = TRUE],
          called |-> TRUE]

\* firefly_bot.py 117-127: found is what find_landing_site returned; the
\* result is the new cache and the local variable target.
adv_select_le(site, x, found) ==
    IF found # None
    THEN IF site # None
         THEN IF Abs(found - x) <= (site - x)
              THEN [target_site |-> found, target |-> found]
              ELSE [target_site |-> site, target |-> initial_target_site]
         ELSE [target_site |-> found, target |-> found]
    ELSE [target_site |-> site, target |-> initial_target_site]

adv_select(site, x, found) ==
    IF found # None
    THEN IF site # None
         THEN IF Abs(found - x) < (site - x)
              THEN [target_site |-> found, target |-> found]
              ELSE [target_site |-> site, target |-> initial_target_site]
         ELSE [target_site |-> found, target |-> found]
    ELSE [target_site |-> site, target |-> initial_target_site]

\* firefly_bot.py 128-146: setpoint, distance and proximity threshold.
\* target is the local of line 117-127, site the cache after them.
adv_setpoint_cached(target, site, x, t) ==
    IF site # None
    THEN [run_to_target |-> TRUE, target |-> site,
          target_y |-> 10 * t[site + 1], diff |-> site - x, dx |-> 50]
    ELSE [run_to_target |-> FALSE, target |-> site,
          target_y |-> hover_setpoint, diff |-> target - x, dx |-> 150]

adv_setpoint(target, site, x, t) ==
    IF target # initial_target_site
    THEN [run_to_target |-> TRUE, target |-> target,
          target_y |-> 10 * t[target + 1], diff |-> target - x, dx |-> 50]
    ELSE [run_to_target |-> FALSE, target |-> site,
          target_y |-> hover_setpoint, diff |-> target - x, dx |-> 150]

\* firefly_bot.py 150-153: replace the controller on a new setpoint, then
\* sample it.
adv_altitude_retarget(py, target_y) ==
    pid_call([py EXCEPT !.setpoint = target_y])

adv_altitude(py, target_y) ==
    pid_call(IF py.setpoint # target_y THEN PID(target_y) ELSE py)

\* firefly_bot.py 155-187: the instruction from the rotation command and
\* the altitude controller's output.
adv_guidance_rotation_first(p, diff, dx, new_y) ==
    IF Abs(diff) < dx
    THEN LET command == IF Abs(p.vx) <= 10 THEN rotate(p.head, 0)
                        ELSE IF p.vx > 10 THEN rotate(p.head, 7000)
                        ELSE rotate(p.head, -7000)
         IN  [instructions |->
                  IF command = "left"
                  THEN [Instructions EXCEPT !.left = TRUE, !.main = TRUE]
                  ELSE IF command = "right"
                  THEN [Instructions EXCEPT !.right = TRUE, !.main = TRUE]
                  ELSE IF new_y > 0 THEN [Instructions EXCEPT !.main = TRUE]
                  ELSE Instructions,
              command |-> command, phase |-> "approach"]
    ELSE LET command == rotate(p.head, 0)
         IN  [instructions |->
                  IF new_y > 0 THEN [Instructions EXCEPT !.main = TRUE]
                  ELSE IF command = "left"
                  THEN [Instructions EXCEPT !.left = TRUE, !.main = TRUE]
                  ELSE IF command = "right"
                  THEN [Instructions EXCEPT !.right = TRUE, !.main = TRUE]
                  ELSE Instructions,
              command |-> IF new_y > 0 THEN "none" ELSE command,
              phase |-> "cruise"]

adv_guidance_bank90(p, diff, dx, new_y) ==
    IF Abs(diff) < dx
    THEN LET command == IF Abs(p.vx) <= 10 THEN rotate(p.head, 0)
                        ELSE IF p.vx > 10 THEN rotate(p.head, 9000)
                        ELSE rotate(p.head, -9000)
         IN  [instructions |->
                  IF new_y > 0 THEN [Instructions EXCEPT !.main = TRUE]
                  ELSE IF command = "left"
                  THEN [Instructions EXCEPT !.left = TRUE, !.main = TRUE]
                  ELSE IF command = "right"
                  THEN [Instructions EXCEPT !.right = TRUE, !.main = TRUE]
                  ELSE Instructions,
              command |-> command, phase |-> "approach"]
    ELSE LET command == rotate(p.head, 0)
         IN  [instructions |->
                  IF new_y > 0 THEN [Instructions EXCEPT !.main = TRUE]
                  ELSE IF command = "left"
                  THEN [Instructions EXCEPT !.left = TRUE, !.main = TRUE]
                  ELSE IF command = "right"
                  THEN [Instructions EXCEPT !.right = TRUE, !.main = TRUE]
                  ELSE Instructions,
              command |-> IF new_y > 0 THEN "none" ELSE command,
              phase |-> "cruise"]

adv_guidance_rotation_only(p, diff, dx, new_y) ==
    IF Abs(diff) < dx
    THEN LET command == IF Abs(p.vx) <= 10 THEN rotate(p.head, 0)
                        ELSE IF p.vx > 10 THEN rotate(p.head, 7000)
                        ELSE rotate(p.head, -7000)
         IN  [instructions |->
                  IF new_y > 0 THEN [Instructions EXCEPT !.main = TRUE]
                  ELSE IF command = "left"
                  THEN [Instructions EXCEPT !.left = TRUE]
                  ELSE IF command = "right"
                  THEN [Instructions EXCEPT !.right = TRUE]
                  ELSE Instructions,
              command |-> command, phase |-> "approach"]
    ELSE LET command == rotate(p.head, 0)
         IN  [instructions |->
                  IF new_y > 0 THEN [Instructions EXCEPT !.main = TRUE]
                  ELSE IF command = "left"
                  THEN [Instructions EXCEPT !.left = TRUE]
                  ELSE IF command = "right"
                  THEN [Instructions EXCEPT !.right = TRUE]
                  ELSE Instructions,
              command |-> IF new_y > 0 THEN "none" ELSE command,
              phase |-> "cruise"]

adv_guidance(p, diff, dx, new_y) ==
    IF Abs(diff) < dx
    THEN LET command == IF Abs(p.vx) <= 10 THEN rotate(p.head, 0)
                        ELSE IF p.vx > 10 THEN rotate(p.head, 7000)
                        ELSE rotate(p.head, -7000)
         IN  [instructions |->
                  IF new_y > 0 THEN [Instructions EXCEPT !.main = TRUE]
                  ELSE IF command = "left"
                  THEN [Instructions EXCEPT !.left = TRUE, !.main = TRUE]
                  ELSE IF command = "right"
                  THEN [Instructions EXCEPT !.right = TRUE, !.main = TRUE]
                  ELSE Instructions,
              command |-> command, phase |-> "approach"]
    ELSE LET command == rotate(p.head, 0)
         IN  [instructions |->
                  IF new_y > 0 THEN [Instructions EXCEPT !.main = TRUE]
                  ELSE IF command = "left"
                  THEN [Instructions EXCEPT !.left = TRUE, !.main = TRUE]
                  ELSE IF command = "right"
                  THEN [Instructions EXCEPT !.right = TRUE, !.main = TRUE]
                  ELSE Instructions,
              command |-> IF new_y > 0 THEN "none" ELSE command,
              phase |-> "cruise"]

\* The whole of Bot.run; out is the output of the one controller the tick
\* samples (pidtheta in the initial manoeuvre, pidy after it).
advanced_run(im, site, ptheta, py, p, t, out) ==
    IF im
    THEN LET r == adv_initial(ptheta, p, out)
         IN  [initial_manoeuvre |-> r.initial_manoeuvre,
              target_site |-> site,
              pidtheta |-> r.pidtheta,
              pidy |-> py,
              instructions |-> r.instructions,
              tick |-> [NoTick EXCEPT !.phase = "initial",
                                      !.new_v = IF r.called THEN out ELSE 0]]
    ELSE LET found == find_landing_site(t)
             sel == adv_select(site, p.x, found)
             sp == adv_setpoint(sel.target, sel.target_site, p.x, t)
             g == adv_guidance(p, sp.diff, sp.dx, out)
         IN  [initial_manoeuvre |-> FALSE,
              target_site |-> sel.target_site,
              pidtheta |-> ptheta,
              pidy |-> adv_altitude(py, sp.target_y),
              instructions |-> g.instructions,
              tick |-> [phase |-> g.phase, scanned |-> TRUE, found |-> found,
                        command |-> g.command, target |-> sp.target,
                        run_to_target |-> sp.run_to_target,
                        target_y |-> sp.target_y, diff |-> sp.diff,
                        dx |-> sp.dx, new_v |-> 0, new_y |-> out]]

AdvancedRun ==
    /\ variant = "advanced"
    /\ pc = "idle"
    /\ \E p \in AdvancedPlayers, t \in Terrains, out \in PidOutputs :
         LET r == advanced_run(initial_manoeuvre, target_site, pidtheta, pidy,
                               p, Blocks(t), out)
         IN  /\ me' = p
             /\ terrain' = t
             /\ initial_manoeuvre' = r.initial_manoeuvre
             /\ target_site' = r.target_site
             /\ pidtheta' = r.pidtheta
             /\ pidy' = r.pidy
             /\ instructions' = r.instructions
             /\ tick' = r.tick
    /\ pc' = "ran"
    /\ UNCHANGED variant

\* The simulation applies the returned instruction and advances the world;
\* the kinematics and terrain of the finished tick are gone.
SimStep ==
    /\ pc = "ran"
    /\ pc' = "idle"
    /\ me' = NoPlayer
    /\ terrain' = <<>>
    /\ instructions' = Instructions
    /\ tick' = NoTick
    /\ UNCHANGED <<variant, initial_manoeuvre, target_site, pidtheta, pidy>>

\* Bot.__init__ of either class (bot.py 45-50, firefly_bot.py 56-68); the
\* baseline bot has no controllers, its two fields stay at these values.
Init ==
    /\ variant \in {"baseline", "advanced"}
    /\ pc = "idle"
    /\ initial_manoeuvre = TRUE
    /\ target_site = None
    /\ pidtheta = PID(0)
    /\ pidy = PID(hover_setpoint)
    /\ me = NoPlayer
    /\ terrain = <<>>
    /\ instructions = Instructions
    /\ tick = NoTick

Next == BaselineRun \/ AdvancedRun \/ SimStep

Spec == Init /\ [][Next]_vars

(***************************************************************************)
(* The Terrain Analyzer on its own: find_landing_site applied to every     *)
(* terrain of up to MaxRuns blocks whose widths are drawn from RunWidths   *)
(* and whose altitudes are drawn from Altitudes.  Neighbouring blocks may  *)
(* share an altitude, so a run of the terrain can span several blocks.     *)
(***************************************************************************)
RunWidths == {1, 20, 40, 41, 60}
Altitudes == {50, 100}

BlockLists ==
    UNION {[1..k -> Altitudes \X RunWidths] : k \in 1..MaxRuns}

AnalyzerTerrains == {d \in BlockLists : Len(Blocks(d)) >= 2}

InitAnalyzer ==
    /\ variant = "analyzer"
    /\ pc = "idle"
    /\ initial_manoeuvre = TRUE
    /\ target_site = None
    /\ pidtheta = PID(0)
    /\ pidy = PID(hover_setpoint)
    /\ me = NoPlayer
    /\ terrain \in AnalyzerTerrains
    /\ instructions = Instructions
    /\ tick = NoTick

\* One call find_landing_site(terrain); its result is kept in tick.found.
Analyze ==
    /\ variant = "analyzer"
    /\ pc = "idle"
    /\ tick' = [NoTick EXCEPT !.phase = "analyze", !.scanned = TRUE,
                              !.found = find_landing_site(Blocks(terrain))]
    /\ pc' = "ran"
    /\ UNCHANGED <<variant, initial_manoeuvre, target_site, pidtheta, pidy,
                   me, terrain, instructions>>

NextAnalyzer == Analyze

SpecAnalyzer == InitAnalyzer /\ [][NextAnalyzer]_vars

(***************************************************************************)
(* Runs of a terrain, stated on the cells (0-based indices, t is 1-based). *)
(***************************************************************************)
\* Cells i .. i+40 exist and all hold the altitude of cell i.
WideWindowAt(t, i) ==
    /\ i >= 0
    /\ i + 41 <= Len(t)
    /\ \A j \in 1..40 : t[i + 1 + j] = t[i + 1]

\* Some run of equal altitudes is wider than 40.
HasWideRun(t) == \E i \in 0..(Len(t) - 41) : WideWindowAt(t, i)

\* Cell r lies in a run of equal altitudes wider than 40.
InWideRun(t, r) == \E i \in (r - 40)..r : WideWindowAt(t, i)

\* The maximal runs of t as <<start, width>>.
MaximalRuns(t) ==
    LET n == Len(t)
        Edge(i) == i = 0 \/ i = n \/ t[i] # t[i + 1]
        Edges == {i \in 0..n : Edge(i)}
    IN  {<<s, e - s>> : <<s, e>> \in
            {b \in (Edges \ {n}) \X (Edges \ {0}) :
                /\ b[1] < b[2]
                /\ \A m \in Edges : ~(b[1] < m /\ m < b[2])}}

\* The widest maximal run, the leftmost one among equally wide ones.
WidestRun(t) ==
    CHOOSE r \in MaximalRuns(t) :
        \A q \in MaximalRuns(t) :
            q[2] < r[2] \/ (q[2] = r[2] /\ q[1] >= r[1])

(***************************************************************************)
(* C2.  For every terrain of length >= 2 the analyzer returns an index     *)
(* only if a run of equal altitudes wider than 40 exists, the index lies   *)
(* inside such a run, and when no run is wider than 40 (a run of exactly   *)
(* 40 included) the result is None.                                        *)
(***************************************************************************)
C2_SiteInsideWideRun ==
    (variant = "analyzer" /\ pc = "ran") =>
        /\ tick.found # None =>
              /\ tick.found \in 0..(Len(Blocks(terrain)) - 1)
              /\ HasWideRun(Blocks(terrain))
              /\ InWideRun(Blocks(terrain), tick.found)
        /\ ~HasWideRun(Blocks(terrain)) => tick.found = None

\* A run of exactly 40 is passed over and the 41-wide run next to it wins.
C2_Witness ==
    /\ variant = "analyzer"
    /\ pc = "ran"
    /\ terrain = << <<100, 40>>, <<50, 41>> >>
    /\ tick.found = 60

(***************************************************************************)
(* C3.  A returned index is start + floor(width / 2) of the widest         *)
(* maximal run, the leftmost one among equally wide runs.                  *)
(***************************************************************************)
C3_MidpointOfWidestRun ==
    (variant = "analyzer" /\ pc = "ran" /\ tick.found # None) =>
        LET r == WidestRun(Blocks(terrain))
        IN  tick.found = r[1] + (r[2] \div 2)

\* Two runs of width 41: the left one is chosen, midpoint 0 + 20.
C3_Witness ==
    /\ variant = "analyzer"
    /\ pc = "ran"
    /\ terrain = << <<100, 41>>, <<50, 41>> >>
    /\ tick.found = 20

(***************************************************************************)
(* Claims about the two bots (specification Spec).                         *)
(***************************************************************************)
Ticked == pc = "ran"
BaselineTicked == variant = "baseline" /\ pc = "ran"
AdvancedTicked == variant = "advanced" /\ pc = "ran"
\* The tick started past the initial manoeuvre.
PostOrientation == tick.phase \in {"hover", "approach", "cruise"}
MainOnly == [main |-> TRUE, left |-> FALSE, right |-> FALSE]

(***************************************************************************)
(* C1.  Whatever the bot state and the tick's inputs, in the baseline and  *)
(* in the advanced variant, the returned instruction never has left and    *)
(* right both true.                                                        *)
(***************************************************************************)
C1_NeverLeftAndRight ==
    Ticked => ~(instructions.left /\ instructions.right)

\* The advanced bot turning left in its initial manoeuvre on a positive
\* controller output.
C1_Witness ==
    /\ AdvancedTicked
    /\ tick.phase = "initial"
    /\ tick.new_v = 1
    /\ instructions.left
    /\ ~instructions.right

(***************************************************************************)
(* C4.  The baseline bot starts in the initial manoeuvre; a tick that      *)
(* starts in it leaves it exactly when vx <= 10 and |heading| < 0.5, and   *)
(* no step ever sets the flag again once it is cleared.                    *)
(***************************************************************************)
C4_PhaseLeftOnce ==
    /\ variant = "baseline" => initial_manoeuvre
    /\ [][variant = "baseline" =>
          /\ (initial_manoeuvre /\ pc = "idle" /\ pc' = "ran") =>
                (initial_manoeuvre' <=>
                    ~(me'.vx <= 1000 /\ Abs(me'.head - 0) < 50))
          /\ (pc = "ran" /\ pc' = "idle") =>
                (initial_manoeuvre' = initial_manoeuvre)
          /\ ~initial_manoeuvre => ~initial_manoeuvre']_vars

\* The tick on which the phase is left, at the edge of both conditions'
\* ranges: vx exactly 10.
C4_Witness ==
    /\ BaselineTicked
    /\ tick.phase = "initial"
    /\ ~initial_manoeuvre
    /\ me.vx = 1000
    /\ me.head = 0

(***************************************************************************)
(* C5.  Baseline, a tick that starts in the initial manoeuvre: with        *)
(* vx > 10 the instruction is main alone and the phase is kept, also when  *)
(* the heading is inside the dead-band; with vx <= 10 main is off and the  *)
(* rotation is the one that turns the heading towards 0 (left at or below  *)
(* -0.5, right at or above 0.5, none in between).                          *)
(***************************************************************************)
C5_InitialOrientTick ==
    (BaselineTicked /\ tick.phase = "initial") =>
        IF me.vx > 1000
        THEN instructions = MainOnly /\ initial_manoeuvre
        ELSE /\ ~instructions.main
             /\ instructions.left <=> (me.head <= -50)
             /\ instructions.right <=> (me.head >= 50)

\* vx = 15 with the heading already at 0: main fires, the phase is kept.
C5_Witness ==
    /\ BaselineTicked
    /\ tick.phase = "initial"
    /\ me.vx = 1500
    /\ me.head = 0
    /\ instructions = MainOnly
    /\ initial_manoeuvre

(***************************************************************************)
(* C6.  Baseline: a cached target site is never changed by a later step,   *)
(* whatever the vehicle state and terrain of the tick, and a tick calls    *)
(* the analyzer exactly when it starts past the initial manoeuvre with     *)
(* nothing cached.                                                         *)
(***************************************************************************)
C6_TargetCachedForGood ==
    [][variant = "baseline" =>
          /\ target_site # None => target_site' = target_site
          /\ (pc = "idle" /\ pc' = "ran") =>
                (tick'.scanned <=> (~initial_manoeuvre /\ target_site = None))
      ]_vars

\* Site 40 stays cached on a tick whose terrain has its widest run elsewhere.
C6_Witness ==
    /\ BaselineTicked
    /\ PostOrientation
    /\ target_site = 40
    /\ terrain = terrain_plateau
    /\ ~tick.scanned

(***************************************************************************)
(* C7.  Baseline, a tick past the initial manoeuvre with nothing cached    *)
(* on which the analyzer finds no site: the cache stays empty, no rotation *)
(* is commanded and main is on exactly when y < 900 and vy < 0.            *)
(***************************************************************************)
C7_FallbackHover ==
    (BaselineTicked /\ PostOrientation /\ tick.scanned /\ tick.found = None) =>
        /\ target_site = None
        /\ ~instructions.left
        /\ ~instructions.right
        /\ instructions.main <=> (me.y < 900 /\ me.vy < 0)

\* Descending at exactly the hover altitude: main stays off.
C7_Witness ==
    /\ BaselineTicked
    /\ PostOrientation
    /\ tick.scanned
    /\ tick.found = None
    /\ terrain = terrain_rough
    /\ me.y = 900
    /\ me.vy = -500
    /\ instructions = Instructions

(***************************************************************************)
(* C8.  Baseline, a tick past the initial manoeuvre with a cached target   *)
(* closer than 50: |vx| < 0.5 and vy < -3 force main on in each of the     *)
(* three velocity branches, and with |vx| <= 0.1 the rotation is the one   *)
(* that turns the heading towards 0.                                       *)
(***************************************************************************)
C8_TerminalDescentOverride ==
    (BaselineTicked /\ PostOrientation /\ target_site # None
        /\ Abs(target_site - me.x) < 50) =>
        /\ (Abs(me.vx) < 50 /\ me.vy < -300) => instructions.main
        /\ Abs(me.vx) <= 10 =>
              /\ instructions.left <=> (me.head <= -50)
              /\ instructions.right <=> (me.head >= 50)

\* Drifting left, where the branch switches main off before the override.
C8_Witness ==
    /\ BaselineTicked
    /\ PostOrientation
    /\ target_site = 40
    /\ me.x = 10
    /\ me.vx = -30
    /\ me.vy = -500
    /\ instructions.main

(***************************************************************************)
(* C9.  Baseline, a tick past the initial manoeuvre with a cached target   *)
(* at 50 or more: no rotation for any heading, main on exactly when        *)
(* vy < 0.  As claimed: on the 200-cell scenario terrain the analyzer      *)
(* returns 120 and the vehicle at x = 10 with vy = -5 gets main alone.     *)
(***************************************************************************)
CruiseHoldsAltitude ==
    (BaselineTicked /\ PostOrientation /\ target_site # None
        /\ Abs(target_site - me.x) >= 50) =>
        /\ ~instructions.left
        /\ ~instructions.right
        /\ instructions.main <=> (me.vy < 0)

ScenarioTick ==
    /\ BaselineTicked
    /\ PostOrientation
    /\ tick.scanned
    /\ terrain = terrain_scenario
    /\ me.x = 10
    /\ me.vy = -500

C9_Original ==
    /\ CruiseHoldsAltitude
    /\ ScenarioTick => (tick.found = 120 /\ instructions = MainOnly)

(***************************************************************************)
(* C9 as amended.  The cruise rule as claimed.  On the scenario terrain    *)
(* the runs [0,80) and [80,160) are equally wide and the analyzer returns  *)
(* 40, the midpoint of the left one; the vehicle at x = 10 is then 30 from *)
(* the target, in the approach sub-state, and with vx = 0, heading 0 and   *)
(* vy = -5 it gets main alone.                                             *)
(***************************************************************************)
C9_CruiseAndScenario ==
    /\ CruiseHoldsAltitude
    /\ ScenarioTick =>
          /\ tick.found = 40
          /\ target_site = 40
          /\ tick.phase = "approach"
          /\ (me.vx = 0 /\ me.head = 0) => instructions = MainOnly

\* The scenario tick itself.
C9_Witness ==
    /\ ScenarioTick
    /\ me.vx = 0
    /\ me.head = 0
    /\ me.y = 500
    /\ tick.found = 40
    /\ instructions = MainOnly

(***************************************************************************)
(* C10.  Advanced, a tick past the initial manoeuvre on which the analyzer *)
(* returns a site n while a site c is cached: afterwards the cache holds   *)
(* whichever of n and c is closer to the vehicle's x, wherever c lies.     *)
(***************************************************************************)
C10_KeepsCloserSite ==
    [][(variant = "advanced" /\ pc = "idle" /\ pc' = "ran"
            /\ ~initial_manoeuvre /\ target_site # None
            /\ tick'.found # None) =>
          /\ target_site' \in {tick'.found, target_site}
          /\ Abs(target_site' - me'.x) <= Abs(tick'.found - me'.x)
          /\ Abs(target_site' - me'.x) <= Abs(target_site - me'.x)]_vars

(***************************************************************************)
(* C11.  Advanced, a tick that starts past the initial manoeuvre: the      *)
(* altitude controller is replaced by a fresh instance (which the tick     *)
(* then samples once) exactly when the tick's setpoint target_y differs    *)
(* from the controller's setpoint, otherwise the same instance takes one   *)
(* more sample; afterwards its setpoint is the tick's target_y.            *)
(***************************************************************************)
C11_ControllerFollowsSetpoint ==
    [][(variant = "advanced" /\ pc = "idle" /\ pc' = "ran"
            /\ ~initial_manoeuvre) =>
          /\ pidy'.setpoint = tick'.target_y
          /\ IF tick'.target_y # pidy.setpoint
             THEN pidy'.samples = 1
             ELSE pidy'.samples =
                      IF pidy.samples < MaxSamples THEN pidy.samples + 1
                      ELSE MaxSamples]_vars

\* The controller has just been replaced for the elevation 100 of site 40:
\* one sample on the new setpoint.
C11_Witness ==
    /\ AdvancedTicked
    /\ PostOrientation
    /\ tick.run_to_target
    /\ tick.target_y = 1000
    /\ pidy = [setpoint |-> 1000, samples |-> 1]

(***************************************************************************)
(* C12.  Advanced, a tick past the initial manoeuvre on which the altitude *)
(* controller returns more than zero: the instruction is main alone, near  *)
(* the target and far from it, for every heading and velocity.             *)
(***************************************************************************)
C12_AltitudeFirst ==
    (AdvancedTicked /\ PostOrientation /\ tick.new_y > 0) =>
        instructions = MainOnly

\* Near the target, drifting right with the heading beyond the 70 degree
\* bank (the rotation command is "right"): main alone.
C12_Witness ==
    /\ AdvancedTicked
    /\ tick.phase = "approach"
    /\ tick.new_y = 1
    /\ me.vx = 30
    /\ me.head = 9000
    /\ tick.command = "right"
    /\ instructions = MainOnly

(***************************************************************************)
(* C13.  Advanced, a tick that starts in the initial manoeuvre: with       *)
(* |heading| < 1 the phase is left on that tick and the instruction is     *)
(* all-false; otherwise the phase is kept, main is on and exactly one      *)
(* rotation is on, left when the heading controller returns more than      *)
(* zero and right otherwise.  Once cleared the flag is never set again.    *)
(***************************************************************************)
C13_HeadingHold ==
    [][variant = "advanced" =>
          /\ (initial_manoeuvre /\ pc = "idle" /\ pc' = "ran") =>
                IF Abs(me'.head - 0) < 100
                THEN ~initial_manoeuvre' /\ instructions' = Instructions
                ELSE /\ initial_manoeuvre'
                     /\ instructions'.main
                     /\ instructions'.left <=> (tick'.new_v > 0)
                     /\ instructions'.right <=> ~(tick'.new_v > 0)
          /\ ~initial_manoeuvre => ~initial_manoeuvre']_vars

\* Heading exactly 1 degree off and a zero controller output: the phase
\* is kept and the bot turns right with main.
C13_Witness ==
    /\ AdvancedTicked
    /\ tick.phase = "initial"
    /\ me.head = 100
    /\ tick.new_v = 0
    /\ initial_manoeuvre
    /\ instructions = [main |-> TRUE, left |-> FALSE, right |-> TRUE]

(***************************************************************************)
(* The Rotation Decision Primitive on its own: rotate applied to every     *)
(* pair of a current and a target angle drawn from RotateCurrents and      *)
(* RotateTargets (hundredths of a degree).                                 *)
(***************************************************************************)
RotateTargets == {-9000, -7000, 0, 7000, 9000}
RotateOffsets ==
    {-18000, -2000, -100, -51, -50, -49, -1, 0, 1, 49, 50, 51, 100, 2000, 18000}
RotateCurrents == {t + o : t \in RotateTargets, o \in RotateOffsets}

RotateCall(current, target, command) ==
    [phase |-> "rotate", current |-> current, target |-> target,
     command |-> command]

InitRotate ==
    /\ variant = "rotate"
    /\ pc = "idle"
    /\ initial_manoeuvre = TRUE
    /\ target_site = None
    /\ pidtheta = PID(0)
    /\ pidy = PID(hover_setpoint)
    /\ me = NoPlayer
    /\ terrain = <<>>
    /\ instructions = Instructions
    /\ tick \in {RotateCall(c, t, "none") :
                    c \in RotateCurrents, t \in RotateTargets}

\* One call rotate(current, target); its result is kept in tick.command.
Rotate ==
    /\ variant = "rotate"
    /\ pc = "idle"
    /\ tick' = [tick EXCEPT !.command = rotate(tick.current, tick.target)]
    /\ pc' = "ran"
    /\ UNCHANGED <<variant, initial_manoeuvre, target_site, pidtheta, pidy,
                   me, terrain, instructions>>

NextRotate == Rotate

SpecRotate == InitRotate /\ [][NextRotate]_vars

(***************************************************************************)
(* C14.  rotate(current, target) is None exactly when                      *)
(* |current - target| < 0.5, "left" when current <= target - 0.5 and       *)
(* "right" when current >= target + 0.5; at a difference of exactly 0.5    *)
(* it is a rotation.                                                       *)
(***************************************************************************)
C14_RotateDeadBand ==
    (variant = "rotate" /\ pc = "ran") =>
        /\ tick.command = "none" <=> Abs(tick.current - tick.target) < 50
        /\ tick.command = "left" <=> tick.current <= tick.target - 50
        /\ tick.command = "right" <=> tick.current >= tick.target + 50
        /\ tick.current = tick.target => tick.command = "none"

\* Exactly 0.5 below the target 90: a rotation, to the left.
C14_Witness ==
    /\ variant = "rotate"
    /\ pc = "ran"
    /\ tick.target = 9000
    /\ tick.current = 8950
    /\ tick.command = "left"

(***************************************************************************)
(* C15.  Baseline, a tick that starts in the initial manoeuvre: the cache  *)
(* stays empty and the analyzer is not called, also on the tick that       *)
(* leaves the phase, and on that tick the instruction is all-false.        *)
(***************************************************************************)
C15_InitialOrientStandsAlone ==
    [][(variant = "baseline" /\ pc = "idle" /\ pc' = "ran"
            /\ initial_manoeuvre) =>
          /\ target_site = None
          /\ target_site' = None
          /\ ~tick'.scanned
          /\ ~initial_manoeuvre' => instructions' = Instructions]_vars

\* The tick that leaves the phase, over a terrain that has a site and low
\* enough, descending, for the fallback hover to fire had the tick gone on.
C15_Witness ==
    /\ BaselineTicked
    /\ tick.phase = "initial"
    /\ ~initial_manoeuvre
    /\ terrain = terrain_scenario
    /\ me.y = 500
    /\ me.vy = -500
    /\ target_site = None
    /\ instructions = Instructions

(***************************************************************************)
(* C16.  Baseline, a tick past the initial manoeuvre with a cached target  *)
(* closer than 50: main is on exactly when vx > 0.1 or (|vx| < 0.5 and     *)
(* vy < -3); drifting right the rotation turns the heading towards 90,     *)
(* drifting left towards -90.                                              *)
(***************************************************************************)
C16_ApproachThrustAndBank ==
    (BaselineTicked /\ PostOrientation /\ target_site # None
        /\ Abs(target_site - me.x) < 50) =>
        /\ instructions.main <=>
              (me.vx > 10 \/ (Abs(me.vx) < 50 /\ me.vy < -300))
        /\ me.vx > 10 =>
              /\ instructions.left <=> (me.head <= 9000 - 50)
              /\ instructions.right <=> (me.head >= 9000 + 50)
        /\ me.vx < -10 =>
              /\ instructions.left <=> (me.head <= -9000 - 50)
              /\ instructions.right <=> (me.head >= -9000 + 50)

\* Drifting left faster than 0.5 while descending fast: banking towards
\* -90 with main withheld.
C16_Witness ==
    /\ BaselineTicked
    /\ PostOrientation
    /\ target_site = 160
    /\ me.x = 130
    /\ me.vx = -1500
    /\ me.vy = -500
    /\ me.head = 0
    /\ instructions = [main |-> FALSE, left |-> FALSE, right |-> TRUE]

(***************************************************************************)
(* C17.  Advanced, a tick past the initial manoeuvre whose altitude        *)
(* controller output is not positive.  As stated: the rotation issued is   *)
(* the one of the baseline's approach and cruise sub-states with banks     *)
(* +70/-70 and the tick's proximity threshold, so none in cruise.          *)
(***************************************************************************)
C17_Original ==
    (AdvancedTicked /\ PostOrientation /\ tick.new_y <= 0) =>
        LET command == IF Abs(tick.diff) < tick.dx
                       THEN IF Abs(me.vx) <= 10 THEN rotate(me.head, 0)
                            ELSE IF me.vx > 10 THEN rotate(me.head, 7000)
                            ELSE rotate(me.head, -7000)
                       ELSE "none"
        IN  /\ instructions.left <=> (command = "left")
            /\ instructions.right <=> (command = "right")

\* C17 as the code has it: within the threshold the rotation is the
\* baseline approach's with banks +70/-70; beyond it the rotation turns the
\* heading towards 0.
C17_BankNearUprightFar ==
    (AdvancedTicked /\ PostOrientation /\ tick.new_y <= 0) =>
        LET command == IF Abs(tick.diff) < tick.dx
                       THEN IF Abs(me.vx) <= 10 THEN rotate(me.head, 0)
                            ELSE IF me.vx > 10 THEN rotate(me.head, 7000)
                            ELSE rotate(me.head, -7000)
                       ELSE rotate(me.head, 0)
        IN  /\ instructions.left <=> (command = "left")
            /\ instructions.right <=> (command = "right")

\* Far from a site being approached, banked at +70 and drifting right: the
\* tick turns right, back towards 0.
C17_Witness ==
    /\ AdvancedTicked
    /\ tick.phase = "cruise"
    /\ tick.run_to_target
    /\ tick.new_y = 0
    /\ me.vx = 30
    /\ me.head = 7000
    /\ instructions = [main |-> TRUE, left |-> FALSE, right |-> TRUE]

(***************************************************************************)
(* C18.  Advanced, a tick past the initial manoeuvre on which the analyzer *)
(* returns the site already in the cache: whatever x is, the tick takes    *)
(* the hover setpoint 0.9 * top_screen and the threshold 150, and the      *)
(* cache keeps the site.  A terrain that stays the same therefore gets the *)
(* site's elevation as setpoint on the caching tick at most.               *)
(***************************************************************************)
C18_CachedSiteHovers ==
    [][(variant = "advanced" /\ pc = "idle" /\ pc' = "ran"
            /\ ~initial_manoeuvre /\ target_site # None
            /\ tick'.found = target_site) =>
          /\ ~tick'.run_to_target
          /\ tick'.target_y = hover_setpoint
          /\ tick'.dx = 150
          /\ pidy'.setpoint = hover_setpoint
          /\ target_site' = target_site]_vars

\* The plateau's site 160 found again with the vehicle left of it, where
\* the comparison of line 120 has a positive right-hand side.
C18_Witness ==
    /\ AdvancedTicked
    /\ PostOrientation
    /\ terrain = terrain_plateau
    /\ tick.found = 160
    /\ target_site = 160
    /\ me.x = 130
    /\ ~tick.run_to_target
    /\ tick.target_y = hover_setpoint

(***************************************************************************)
(* C19.  Advanced, every tick of every phase: left or right is never set   *)
(* without main.                                                           *)
(***************************************************************************)
C19_RotationNeedsMain ==
    AdvancedTicked =>
        ((instructions.left \/ instructions.right) => instructions.main)

\* A rotation issued while the altitude controller asks for no thrust.
C19_Witness ==
    /\ AdvancedTicked
    /\ PostOrientation
    /\ tick.new_y = -1
    /\ instructions = [main |-> TRUE, left |-> TRUE, right |-> FALSE]

(***************************************************************************)
(* C20.  Advanced, a tick past the initial manoeuvre on which the analyzer *)
(* returns the index int(screen_width / 2): the tick takes the hover       *)
(* setpoint and the threshold 150, never the site's elevation; an empty    *)
(* cache takes the index, a filled one takes it under the comparison of    *)
(* line 120 like any other site.                                           *)
(***************************************************************************)
C20_CentreSiteNeverApproached ==
    [][(variant = "advanced" /\ pc = "idle" /\ pc' = "ran"
            /\ ~initial_manoeuvre
            /\ tick'.found = initial_target_site) =>
          /\ ~tick'.run_to_target
          /\ tick'.target_y = hover_setpoint
          /\ tick'.dx = 150
          /\ pidy'.setpoint = hover_setpoint
          /\ target_site = None => target_site' = initial_target_site
          /\ target_site' \in {target_site, initial_target_site}]_vars

\* The all-flat terrain: the centre index is in the cache and the tick
\* hovers although the ground under it is at 100.
C20_Witness ==
    /\ AdvancedTicked
    /\ PostOrientation
    /\ terrain = terrain_flat
    /\ tick.found = initial_target_site
    /\ target_site = initial_target_site
    /\ ~tick.run_to_target
    /\ tick.target_y = hover_setpoint

====
